---- MODULE Spec2Model ----
(***************************************************************************)
(* Model of the ClinicalTrials.gov ingestion pipeline of                   *)
(* src/ingestion/clinical_trials_api.py: the bounded-retry fetcher _get,   *)
(* the paginator get_api_data and the chunked loader save_to_snowflake.    *)
(*                                                                         *)
(* The source API and the warehouse are the environment.  The source is a  *)
(* chain of pages of PAGE_SIZE records over totalAvail records; one page   *)
(* (loopFrom) may carry a continuation token that points back to an        *)
(* earlier page (loopTo), the protocol anomaly the paginator guards        *)
(* against.  Every HTTP attempt may succeed, fail at transport level or    *)
(* come back with an error status.                                         *)
(***************************************************************************)
EXTENDS Integers, Sequences, FiniteSets

\* ---------------------------------------------------------------- bounds
MaxTotal == 5       \* records available at the source: 0..MaxTotal
MaxPageSize == 2    \* CTGOV_PAGE_SIZE is drawn from 1..MaxPageSize
MaxPagesCfg == 3    \* CTGOV_MAX_PAGES is drawn from 0..MaxPagesCfg
MaxRecordsCfg == 3  \* CTGOV_MAX_RECORDS is drawn from 0..MaxRecordsCfg
MaxRows == 4        \* records handed to save_to_snowflake: 0..MaxRows
MaxChunk == 3       \* SNOWFLAKE_INSERT_CHUNK is drawn from 1..MaxChunk
MaxSecond == 2      \* wall-clock seconds a batch id can be taken in: 1..MaxSecond
TicksPerSecond == 2 \* instants the clock tells apart within one second
FloatMax == 8       \* the largest quotient a float holds (scaled down from 1.8e308)
ConcRows == 2       \* records of each of two loads of one table: 1..ConcRows
MainTotal == 2      \* records at the source in a run of main: 0..MainTotal
MainPagesCfg == 1   \* CTGOV_MAX_PAGES in a run of main: 0..MainPagesCfg
MainRecordsCfg == 1 \* CTGOV_MAX_RECORDS in a run of main: 0..MainRecordsCfg

\* ------------------------------------------------------ program constants
MaxAttempts == 3    \* range(1, 4) in _get

VARIABLES
  \* configuration read from the environment at import time
  MAX_PAGES, MAX_RECORDS, PAGE_SIZE,
  \* the source API (environment)
  totalAvail, loopFrom, loopTo,
  \* get_api_data locals
  studies, page_token, seen_tokens, pages, expected_pages, payload,
  \* control: position in get_api_data / _get
  ppc, attempt,
  \* history of the run (not read by the program)
  requests, outcomes, waits, stop,
  \* loader configuration and the warehouse (environment)
  INSERT_CHUNK, autocommit, table, table_exists, table0,
  \* whether the warehouse credentials can be resolved (secret or env vars)
  creds,
  \* save_to_snowflake: locals, position and history of each call
  ld,
  \* entrypoints: the SINK setting, position in main and in lambda_handler,
  \* lambda_handler's return value, the file sink's artifact, and the history
  \* of sink calls main made
  SINK, mpc, hpc, status, file, calls,
  \* a second paginator run fed the same pages with its own total-count hints
  twin

fetchVars == <<MAX_PAGES, MAX_RECORDS, PAGE_SIZE, totalAvail, loopFrom, loopTo,
               studies, page_token, seen_tokens, pages, expected_pages, payload,
               ppc, attempt, requests, outcomes, waits, stop>>

loadVars == <<INSERT_CHUNK, autocommit, creds, table, table_exists, table0, ld>>

mainVars == <<SINK, mpc, hpc, status, file, calls>>

vars == <<fetchVars, loadVars, mainVars, twin>>

\* ------------------------------------------------------------- helpers
Min(a, b) == IF a <= b THEN a ELSE b
Max(a, b) == IF a >= b THEN a ELSE b

\* math.ceil(a / b) for a >= 0, b > 0
ceil(a, b) == (a + b - 1) \div b

\* A python token: 0 stands for None / a missing key / the empty string
\* (all falsy), k > 0 for the token that addresses page k.
NoToken == 0

\* _get's return value None
None == [ok |-> FALSE, studies |-> <<>>, nextPageToken |-> NoToken, totalCount |-> -1]

\* ------------------------------------------------- the source (environment)
NumPages == Max(1, ceil(totalAvail, PAGE_SIZE))

\* the page a request with pageToken tok addresses (no token: the first page)
PageOf(tok) == IF tok = NoToken THEN 1 ELSE tok

\* the records of page p: the p-th slice of PAGE_SIZE records of 1..totalAvail
PageRecords(p) ==
  LET lo == (p - 1) * PAGE_SIZE + 1
      hi == Min(p * PAGE_SIZE, totalAvail)
  IN  [i \in 1..Max(0, hi - lo + 1) |-> lo + i - 1]

\* the continuation token page p carries
PageNext(p) ==
  IF p = loopFrom THEN loopTo
  ELSE IF p * PAGE_SIZE < totalAvail THEN p + 1 ELSE NoToken

\* the JSON body of a 2xx response to a request carrying tok; hint is the
\* optional totalCount (-1: the key is absent)
Response(tok, hint) ==
  [ok |-> TRUE, studies |-> PageRecords(PageOf(tok)),
   nextPageToken |-> PageNext(PageOf(tok)), totalCount |-> hint]

\* the source hands out every token at most once along its chain
WellBehaved == loopFrom = 0

\* ---------------------------------------------------------------- Init
FetchStart ==
  /\ MAX_PAGES \in 0..MaxPagesCfg
  /\ MAX_RECORDS \in 0..MaxRecordsCfg
  /\ PAGE_SIZE \in 1..MaxPageSize
  /\ totalAvail \in 0..MaxTotal
  /\ loopFrom \in 0..NumPages
  /\ loopTo \in (IF loopFrom = 0 THEN {0} ELSE 1..loopFrom)
  /\ studies = <<>>
  /\ page_token = NoToken
  /\ seen_tokens = {}
  /\ pages = 0
  /\ expected_pages = 0
  /\ payload = None
  /\ ppc = "loop"
  /\ attempt = 0
  /\ requests = <<>>
  /\ outcomes = <<>>
  /\ waits = <<>>
  /\ stop = "running"

\* the calls of save_to_snowflake the model follows (SpecLoad makes call 1)
Runs == {1, 2}

\* a call that has not been made
NotCalled ==
  [pc |-> "idle", input |-> <<>>, conn |-> "none", cur |-> "none", second |-> 0,
   batch_id |-> 0,
   rows |-> <<>>, k |-> 0, r |-> 0, inserted |-> 0, pending |-> <<>>,
   exc |-> "none", cause |-> "none", raised |-> "none", rollback |-> "not_called",
   commits |-> <<>>]

\* the warehouse before the run: no table yet, or a table holding an earlier
\* batch's row; no call of the loader in progress
LoadIdle ==
  /\ INSERT_CHUNK = 1
  /\ autocommit = FALSE
  /\ creds = TRUE
  /\ table = <<>>
  /\ table_exists = FALSE
  /\ table0 = <<>>
  /\ ld = [r \in Runs |-> NotCalled]

\* main and lambda_handler are not running
MainIdle ==
  /\ SINK = "snowflake"
  /\ mpc = "idle"
  /\ hpc = "idle"
  /\ status = 0
  /\ file = <<>>
  /\ calls = <<>>

\* the paginator's locals at entry (lines 83-87), as a record
Entry ==
  [studies |-> <<>>, page_token |-> NoToken, seen_tokens |-> {}, pages |-> 0,
   expected_pages |-> 0, payload |-> None, ppc |-> "loop", stop |-> "running",
   requests |-> <<>>]

\* no second run is followed
TwinIdle == twin = Entry

InitFetch == FetchStart /\ LoadIdle /\ MainIdle /\ TwinIdle

\* ------------------------------------------------------------ _get
\* get_api_data lines 90-94: build the params and call _get
CallGet ==
  /\ ppc = "loop"
  /\ ppc' = "get"
  /\ attempt' = 1
  /\ requests' = Append(requests, page_token)
  /\ outcomes' = <<>>
  /\ waits' = <<>>
  /\ UNCHANGED <<MAX_PAGES, MAX_RECORDS, PAGE_SIZE, totalAvail, loopFrom, loopTo,
                 studies, page_token, seen_tokens, pages, expected_pages, payload, stop>>
  /\ UNCHANGED <<loadVars, mainVars>>

\* _get lines 70-75: the attempt succeeds (2xx, JSON body) and _get returns it
GetOk ==
  /\ ppc = "get"
  /\ \E hint \in {-1, totalAvail} :
       payload' = Response(requests[Len(requests)], hint)
  /\ outcomes' = Append(outcomes, "ok")
  /\ ppc' = "got"
  /\ attempt' = 0
  /\ UNCHANGED <<MAX_PAGES, MAX_RECORDS, PAGE_SIZE, totalAvail, loopFrom, loopTo,
                 studies, page_token, seen_tokens, pages, expected_pages,
                 requests, waits, stop>>
  /\ UNCHANGED <<loadVars, mainVars>>

\* line 68: for attempt in range(1, 4) -- is there another attempt after a
HasNextAttempt_OneMore(a) == a <= MaxAttempts

HasNextAttempt(a) == a < MaxAttempts

\* _get lines 70-79: the attempt raises requests.RequestException (a
\* transport error, or raise_for_status on an error status, which is a status
\* of 400 or above); the handler logs, sleeps
\* `attempt` seconds, and the loop goes on or falls through to `return None`
GetFail ==
  /\ ppc = "get"
  /\ \E kind \in {"transport_error", "http_error"} :
       outcomes' = Append(outcomes, kind)
  /\ waits' = Append(waits, attempt)
  /\ IF HasNextAttempt(attempt)
       THEN /\ attempt' = attempt + 1
            /\ UNCHANGED <<ppc, payload>>
       ELSE /\ attempt' = 0
            /\ payload' = None
            /\ ppc' = "got"
  /\ UNCHANGED <<MAX_PAGES, MAX_RECORDS, PAGE_SIZE, totalAvail, loopFrom, loopTo,
                 studies, page_token, seen_tokens, pages, expected_pages,
                 requests, stop>>
  /\ UNCHANGED <<loadVars, mainVars>>

\* ------------------------------------------------------ get_api_data
\* line 103: studies.extend(batch)
Extend_Prepend(acc, batch) == batch \o acc

Extend(acc, batch) == acc \o batch

\* line 113: MAX_RECORDS and len(studies) >= MAX_RECORDS
ReachedMaxRecords(acc) == MAX_RECORDS # 0 /\ Len(acc) >= MAX_RECORDS

\* line 114: studies[:MAX_RECORDS]
Truncate_NoCut(acc) == acc

Truncate(acc) == SubSeq(acc, 1, Min(Len(acc), MAX_RECORDS))

\* line 117: MAX_PAGES and pages >= MAX_PAGES
ReachedMaxPages_OffByOne(n) == MAX_PAGES # 0 /\ n > MAX_PAGES

ReachedMaxPages_ZeroIsLimit(n) == n >= MAX_PAGES

ReachedMaxPages(n) == MAX_PAGES # 0 /\ n >= MAX_PAGES

\* line 124: next_tok in seen_tokens
TokenRepeated_Unchecked(tok) == FALSE

TokenRepeated_OnlyCurrent(tok) == tok = page_token

TokenRepeated(tok) == tok \in seen_tokens

\* lines 95-128: one pass of the loop body after _get returned
ProcessPage ==
  /\ ppc = "got"
  /\ outcomes' = <<>>
  /\ waits' = <<>>
  /\ payload' = None
  /\ IF ~payload.ok
       THEN /\ ppc' = "done"
            /\ stop' = "fetch_failure"
            /\ UNCHANGED <<studies, page_token, seen_tokens, pages, expected_pages>>
       ELSE LET acc == Extend(studies, payload.studies)
                next_tok == payload.nextPageToken
            IN
            /\ expected_pages' =
                 IF expected_pages = 0 /\ payload.totalCount >= 0
                   THEN Max(1, ceil(payload.totalCount, PAGE_SIZE))
                   ELSE expected_pages
            /\ pages' = pages + 1
            /\ IF ReachedMaxRecords(acc)
                 THEN /\ studies' = Truncate(acc)
                      /\ ppc' = "done"
                      /\ stop' = "max_records"
                      /\ UNCHANGED <<page_token, seen_tokens>>
               ELSE IF ReachedMaxPages(pages + 1)
                 THEN /\ studies' = acc
                      /\ ppc' = "done"
                      /\ stop' = "max_pages"
                      /\ UNCHANGED <<page_token, seen_tokens>>
               ELSE IF next_tok = NoToken
                 THEN /\ studies' = acc
                      /\ ppc' = "done"
                      /\ stop' = "no_token"
                      /\ UNCHANGED <<page_token, seen_tokens>>
               ELSE IF TokenRepeated(next_tok)
                 THEN /\ studies' = acc
                      /\ ppc' = "done"
                      /\ stop' = "repeated_token"
                      /\ UNCHANGED <<page_token, seen_tokens>>
               ELSE /\ studies' = acc
                    /\ seen_tokens' = seen_tokens \cup {next_tok}
                    /\ page_token' = next_tok
                    /\ ppc' = "loop"
                    /\ UNCHANGED stop
  /\ UNCHANGED <<MAX_PAGES, MAX_RECORDS, PAGE_SIZE, totalAvail, loopFrom, loopTo,
                 attempt, requests>>
  /\ UNCHANGED <<loadVars, mainVars>>

NextFetch ==
  \/ CallGet /\ UNCHANGED twin
  \/ GetOk /\ UNCHANGED twin
  \/ GetFail /\ UNCHANGED twin
  \/ ProcessPage /\ UNCHANGED twin

SpecFetch == InitFetch /\ [][NextFetch]_vars

\* get_api_data runs in one thread with nothing to wait for but its own
\* requests (each bounded by timeout=HTTP_TIMEOUT, line 70) and sleeps (line
\* 78): whenever it has a next step, it takes one
SpecFetchFair == SpecFetch /\ WF_vars(NextFetch)

\* ------------------------------------- two runs that differ in the hint
\* The second run (twin) is fed by the same source: the same page and
\* continuation token for the same request, an attempt failing for it when
\* it fails for the first run; only the totalCount of its pages is its own.

\* a totalCount too large for its quotient by any page size to be a float
HugeCount == (FloatMax + 1) * MaxPageSize

\* the totalCount values the second run's pages may carry: none, the true
\* count, a wrong count, a huge one
TwinHints == {-1, totalAvail, MaxTotal + 1, HugeCount}

\* line 99: payload["totalCount"] / PAGE_SIZE is a true division of two
\* ints, which raises OverflowError when the quotient exceeds the floats
Overflows(total) == total > FloatMax * PAGE_SIZE

\* the locals of the first run, as a record
Cur ==
  [studies |-> studies, page_token |-> page_token, seen_tokens |-> seen_tokens,
   pages |-> pages, expected_pages |-> expected_pages, payload |-> payload,
   ppc |-> ppc, stop |-> stop, requests |-> requests]

\* lines 90-94 on the locals t
TwinCall(t) ==
  IF t.ppc = "loop"
    THEN [t EXCEPT !.ppc = "get", !.requests = Append(@, t.page_token)]
    ELSE t

\* lines 70-75 on the locals t: the page for t's request, with hint h
TwinOk(t, h) ==
  IF t.ppc = "get"
    THEN [t EXCEPT !.ppc = "got", !.payload = Response(t.requests[Len(t.requests)], h)]
    ELSE t

\* line 79 on the locals t: _get gave up and returned None
TwinNone(t) ==
  IF t.ppc = "get" THEN [t EXCEPT !.ppc = "got", !.payload = None] ELSE t

\* lines 95-128 on the locals t: one pass of the loop body after _get
\* returned, the OverflowError of line 99 included (it leaves get_api_data)
PageStep(t) ==
  LET pl == t.payload
      acc == Extend(t.studies, pl.studies)
      next_tok == pl.nextPageToken
      reads == t.expected_pages = 0 /\ pl.totalCount >= 0
      counted == [t EXCEPT !.payload = None, !.pages = @ + 1,
                    !.expected_pages = IF reads THEN Max(1, ceil(pl.totalCount, PAGE_SIZE))
                                       ELSE @]
  IN  IF ~pl.ok
        THEN [t EXCEPT !.payload = None, !.ppc = "done", !.stop = "fetch_failure"]
      ELSE IF reads /\ Overflows(pl.totalCount)
        THEN [t EXCEPT !.payload = None, !.ppc = "done", !.stop = "raised"]
      ELSE IF ReachedMaxRecords(acc)
        THEN [counted EXCEPT !.studies = Truncate(acc), !.ppc = "done", !.stop = "max_records"]
      ELSE IF ReachedMaxPages(t.pages + 1)
        THEN [counted EXCEPT !.studies = acc, !.ppc = "done", !.stop = "max_pages"]
      ELSE IF next_tok = NoToken
        THEN [counted EXCEPT !.studies = acc, !.ppc = "done", !.stop = "no_token"]
      ELSE IF next_tok \in t.seen_tokens
        THEN [counted EXCEPT !.studies = acc, !.ppc = "done", !.stop = "repeated_token"]
      ELSE [counted EXCEPT !.studies = acc, !.seen_tokens = @ \cup {next_tok},
                           !.page_token = next_tok, !.ppc = "loop"]

\* both runs build their request
BothCall ==
  /\ CallGet
  /\ twin' = TwinCall(twin)

\* the attempt succeeds for both runs; the second run's page has its own hint
BothOk ==
  /\ GetOk
  /\ \E h \in TwinHints : twin' = TwinOk(twin, h)

\* the attempt fails for both runs
BothFail ==
  /\ GetFail
  /\ twin' = IF ppc' = "got" THEN TwinNone(twin) ELSE twin

\* both runs go through the loop body
BothProcess ==
  /\ ProcessPage
  /\ twin' = IF twin.ppc = "got" THEN PageStep(twin) ELSE twin

NextHint ==
  \/ BothCall
  \/ BothOk
  \/ BothFail
  \/ BothProcess

SpecHint == InitFetch /\ [][NextHint]_vars

\* ------------------------------------------------- save_to_snowflake
\* The warehouse session.  _connect_snowflake (lines 167-177) passes no
\* autocommit argument to snowflake.connector.connect, so whether the session
\* auto-commits every statement is decided by the account's AUTOCOMMIT
\* parameter, not by the program: `autocommit` is either value.  With it off,
\* inserted rows stay in `pending` until conn.commit(); with it on, every
\* INSERT is durable at once and commit / rollback find nothing to do.
\* `table` holds the durably visible (committed) rows in commit order.

\* line 206: rows = [(json.dumps(s), batch_id) for s in studies]; a record's
\* JSON text is represented by the record itself
Rows_StampPerRow(recs, bid) == [i \in 1..Len(recs) |-> <<recs[i], bid + i - 1>>]

Rows(recs, bid) == [i \in 1..Len(recs) |-> <<recs[i], bid>>]

\* lines 190-192: the slices rows[i : i + n] for i = 0, n, 2n, ...
_chunks_WholeBatch(rows, n) == IF rows = <<>> THEN <<>> ELSE <<rows>>

_chunks(rows, n) ==
  [k \in 1..ceil(Len(rows), n) |-> SubSeq(rows, (k - 1) * n + 1, Min(k * n, Len(rows)))]

\* lines 229-230: an error of conn.rollback() is passed over; the bare raise
\* of line 231 re-raises the exception being handled
AfterRollbackError_Replaces(exc) == "rollback"

AfterRollbackError(exc) == exc

\* lines 238-239: an error of cur.close() / conn.close() is passed over
AfterCloseError(exc) == exc

\* the way the call leaves: returns, or raises the exception in flight
Leave(l) ==
  [l EXCEPT !.pc = IF l.exc = "none" THEN "returned" ELSE "raised", !.raised = l.exc]

\* an exception e raised inside the try block: control moves to line 224
Raise(l, e) == [l EXCEPT !.pc = "except", !.exc = e, !.cause = e]

\* line 195: not studies
NoStudies_Never(recs) == FALSE

NoStudies(recs) == recs = <<>>

\* lines 195-199: the empty-input early return, else conn = cur = None
SaveStart(c) ==
  /\ ld[c].pc = "call"
  /\ ld' = [ld EXCEPT ![c] =
       IF NoStudies(ld[c].input)
         THEN [@ EXCEPT !.pc = "returned"]
         ELSE [@ EXCEPT !.pc = "connect", !.conn = "none", !.cur = "none"]]
  /\ UNCHANGED <<INSERT_CHUNK, autocommit, creds, table, table_exists, table0>>
  /\ UNCHANGED <<fetchVars, mainVars>>

\* line 201: conn = _connect_snowflake()
ConnectOk(c) ==
  /\ ld[c].pc = "connect"
  /\ creds
  /\ ld' = [ld EXCEPT ![c] = [@ EXCEPT !.pc = "cursor", !.conn = "open"]]
  /\ UNCHANGED <<INSERT_CHUNK, autocommit, creds, table, table_exists, table0>>
  /\ UNCHANGED <<fetchVars, mainVars>>

\* line 201 raises: _env's RuntimeError when a credential is missing (lines
\* 134-165), else a failure of snowflake.connector.connect
ConnectFail(c) ==
  /\ ld[c].pc = "connect"
  /\ ld' = [ld EXCEPT ![c] = Raise(@, IF creds THEN "connect" ELSE "missing_env")]
  /\ UNCHANGED <<INSERT_CHUNK, autocommit, creds, table, table_exists, table0>>
  /\ UNCHANGED <<fetchVars, mainVars>>

\* line 202: cur = conn.cursor()
CursorOk(c) ==
  /\ ld[c].pc = "cursor"
  /\ ld' = [ld EXCEPT ![c] = [@ EXCEPT !.pc = "ensure", !.cur = "open"]]
  /\ UNCHANGED <<INSERT_CHUNK, autocommit, creds, table, table_exists, table0>>
  /\ UNCHANGED <<fetchVars, mainVars>>

CursorFail(c) ==
  /\ ld[c].pc = "cursor"
  /\ ld' = [ld EXCEPT ![c] = Raise(@, "cursor")]
  /\ UNCHANGED <<INSERT_CHUNK, autocommit, creds, table, table_exists, table0>>
  /\ UNCHANGED <<fetchVars, mainVars>>

\* the instants datetime.utcnow() can return: TicksPerSecond of them in each
\* of the seconds 1..MaxSecond
Instants == TicksPerSecond .. ((MaxSecond + 1) * TicksPerSecond - 1)

\* the wall-clock second an instant lies in
SecondOf(t) == t \div TicksPerSecond

\* line 205: f"batch_{utcnow().strftime('%Y%m%d_%H%M%S')}": the instant cut
\* down to its second (the id is represented by that second)
BatchId_NoSeconds(t) == 1

BatchId(t) == t \div TicksPerSecond

\* lines 179-188: CREATE TABLE IF NOT EXISTS leaves the rows of an existing
\* table alone
_ensure_table_Replace(tbl) == <<>>

_ensure_table(tbl) == tbl

\* lines 203-214: _ensure_table, then the batch id from the current
\* instant (whose second is kept in `second`), the rows, inserted = 0, and
\* the first chunk
EnsureOk(c) ==
  /\ ld[c].pc = "ensure"
  /\ table_exists' = TRUE
  /\ table' = _ensure_table(table)
  /\ \E t \in Instants :
       ld' = [ld EXCEPT ![c] =
         [@ EXCEPT !.second = SecondOf(t), !.batch_id = BatchId(t),
                   !.rows = Rows(ld[c].input, BatchId(t)), !.inserted = 0,
                   !.k = 1, !.r = 0,
                   !.pc = IF Len(_chunks(Rows(ld[c].input, BatchId(t)), INSERT_CHUNK)) = 0
                            THEN "fin_cur" ELSE "insert"]]
  /\ UNCHANGED <<INSERT_CHUNK, autocommit, creds, table0>>
  /\ UNCHANGED <<fetchVars, mainVars>>

EnsureFail(c) ==
  /\ ld[c].pc = "ensure"
  /\ ld' = [ld EXCEPT ![c] = Raise(@, "ensure")]
  /\ UNCHANGED <<INSERT_CHUNK, autocommit, creds, table, table_exists, table0>>
  /\ UNCHANGED <<fetchVars, mainVars>>

\* lines 209-212: the statement is a plain INSERT INTO ... SELECT, which
\* adds its row to the table whatever the table holds
InsertInto_Merge(tbl, rows) ==
  tbl \o SelectSeq(rows, LAMBDA r : \A i \in 1..Len(tbl) : tbl[i][1] # r[1])

InsertInto(tbl, rows) == tbl \o rows

\* lines 216-217: cur.execute(sql, r) for the next row of the current chunk
InsertOk(c) ==
  /\ ld[c].pc = "insert"
  /\ LET chunk == _chunks(ld[c].rows, INSERT_CHUNK)[ld[c].k]
         row == chunk[ld[c].r + 1]
     IN
     /\ table' = IF autocommit THEN InsertInto(table, <<row>>) ELSE table
     /\ ld' = [ld EXCEPT ![c] =
          [@ EXCEPT !.pending = IF autocommit THEN @ ELSE Append(@, row),
                    !.r = @ + 1,
                    !.pc = IF ld[c].r + 1 = Len(chunk) THEN "commit" ELSE "insert"]]
  /\ UNCHANGED <<INSERT_CHUNK, autocommit, creds, table_exists, table0>>
  /\ UNCHANGED <<fetchVars, mainVars>>

InsertFail(c) ==
  /\ ld[c].pc = "insert"
  /\ ld' = [ld EXCEPT ![c] = Raise(@, "insert")]
  /\ UNCHANGED <<INSERT_CHUNK, autocommit, creds, table, table_exists, table0>>
  /\ UNCHANGED <<fetchVars, mainVars>>

\* lines 218-220: conn.commit(), inserted += len(chunk), next chunk or the
\* end of the try block
CommitOk(c) ==
  /\ ld[c].pc = "commit"
  /\ LET chunks == _chunks(ld[c].rows, INSERT_CHUNK)
     IN
     /\ table' = InsertInto(table, ld[c].pending)
     /\ ld' = [ld EXCEPT ![c] =
          [@ EXCEPT !.pending = <<>>,
                    !.commits = Append(@, ld[c].r),
                    !.inserted = @ + Len(chunks[ld[c].k]),
                    !.k = @ + 1, !.r = 0,
                    !.pc = IF ld[c].k = Len(chunks) THEN "fin_cur" ELSE "insert"]]
  /\ UNCHANGED <<INSERT_CHUNK, autocommit, creds, table_exists, table0>>
  /\ UNCHANGED <<fetchVars, mainVars>>

CommitFail(c) ==
  /\ ld[c].pc = "commit"
  /\ ld' = [ld EXCEPT ![c] = Raise(@, "commit")]
  /\ UNCHANGED <<INSERT_CHUNK, autocommit, creds, table, table_exists, table0>>
  /\ UNCHANGED <<fetchVars, mainVars>>

\* lines 224-231: log, conn.rollback() when there is a connection (its own
\* failure passed over), re-raise
Except(c) ==
  /\ ld[c].pc = "except"
  /\ \/ /\ ld[c].conn = "none"
        /\ ld' = [ld EXCEPT ![c] = [@ EXCEPT !.pc = "fin_cur"]]
     \/ /\ ld[c].conn # "none"
        /\ ld' = [ld EXCEPT ![c] =
             [@ EXCEPT !.pc = "fin_cur", !.rollback = "ok", !.pending = <<>>]]
     \/ /\ ld[c].conn # "none"
        /\ ld' = [ld EXCEPT ![c] =
             [@ EXCEPT !.pc = "fin_cur", !.rollback = "failed",
                       !.exc = AfterRollbackError(@)]]
  /\ UNCHANGED <<INSERT_CHUNK, autocommit, creds, table, table_exists, table0>>
  /\ UNCHANGED <<fetchVars, mainVars>>

\* lines 233-235: cur.close() when there is a cursor; when it raises, the
\* except of line 238 ends the finally block and conn.close() is not reached
FinallyCur(c) ==
  /\ ld[c].pc = "fin_cur"
  /\ \/ /\ ld[c].cur = "none"
        /\ ld' = [ld EXCEPT ![c] = [@ EXCEPT !.pc = "fin_conn"]]
     \/ /\ ld[c].cur # "none"
        /\ ld' = [ld EXCEPT ![c] = [@ EXCEPT !.pc = "fin_conn", !.cur = "closed"]]
     \/ /\ ld[c].cur # "none"
        /\ ld' = [ld EXCEPT ![c] =
             Leave([@ EXCEPT !.cur = "close_failed", !.exc = AfterCloseError(@)])]
  /\ UNCHANGED <<INSERT_CHUNK, autocommit, creds, table, table_exists, table0>>
  /\ UNCHANGED <<fetchVars, mainVars>>

\* lines 236-239: conn.close() when there is a connection; the session ends
\* and its open transaction is discarded
FinallyConn(c) ==
  /\ ld[c].pc = "fin_conn"
  /\ \/ /\ ld[c].conn = "none"
        /\ ld' = [ld EXCEPT ![c] = Leave(@)]
     \/ /\ ld[c].conn # "none"
        /\ ld' = [ld EXCEPT ![c] = Leave([@ EXCEPT !.conn = "closed", !.pending = <<>>])]
     \/ /\ ld[c].conn # "none"
        /\ ld' = [ld EXCEPT ![c] =
             Leave([@ EXCEPT !.conn = "close_failed", !.exc = AfterCloseError(@)])]
  /\ UNCHANGED <<INSERT_CHUNK, autocommit, creds, table, table_exists, table0>>
  /\ UNCHANGED <<fetchVars, mainVars>>

\* the paginator is not running
FetchIdle ==
  /\ MAX_PAGES = 0 /\ MAX_RECORDS = 0 /\ PAGE_SIZE = 1
  /\ totalAvail = 0 /\ loopFrom = 0 /\ loopTo = 0
  /\ studies = <<>> /\ page_token = NoToken /\ seen_tokens = {}
  /\ pages = 0 /\ expected_pages = 0 /\ payload = None
  /\ ppc = "idle" /\ attempt = 0
  /\ requests = <<>> /\ outcomes = <<>> /\ waits = <<>> /\ stop = "running"

\* the row an earlier batch left in the table
PriorTable == << <<0, 0>> >>

\* one call save_to_snowflake(studies) with 0..MaxRows records
InitLoad ==
  /\ FetchIdle
  /\ MainIdle
  /\ TwinIdle
  /\ INSERT_CHUNK \in 1..MaxChunk
  /\ autocommit \in BOOLEAN
  /\ creds \in BOOLEAN
  /\ table_exists \in BOOLEAN
  /\ table = (IF table_exists THEN PriorTable ELSE <<>>)
  /\ table0 = table
  /\ \E K \in 0..MaxRows :
       ld = [c \in Runs |->
               IF c = 1 THEN [NotCalled EXCEPT !.pc = "call", !.input = [i \in 1..K |-> i]]
               ELSE NotCalled]

\* the steps of call c of save_to_snowflake
SaveStep(c) ==
  \/ SaveStart(c) /\ UNCHANGED twin
  \/ ConnectOk(c) /\ UNCHANGED twin
  \/ ConnectFail(c) /\ UNCHANGED twin
  \/ CursorOk(c) /\ UNCHANGED twin
  \/ CursorFail(c) /\ UNCHANGED twin
  \/ EnsureOk(c) /\ UNCHANGED twin
  \/ EnsureFail(c) /\ UNCHANGED twin
  \/ InsertOk(c) /\ UNCHANGED twin
  \/ InsertFail(c) /\ UNCHANGED twin
  \/ CommitOk(c) /\ UNCHANGED twin
  \/ CommitFail(c) /\ UNCHANGED twin
  \/ Except(c) /\ UNCHANGED twin
  \/ FinallyCur(c) /\ UNCHANGED twin
  \/ FinallyConn(c) /\ UNCHANGED twin

NextLoad == \E c \in Runs : SaveStep(c)

SpecLoad == InitLoad /\ [][NextLoad]_vars

\* ------------------------------------------------ two concurrent loads
\* record i of run c, and the run a record belongs to: the two runs load
\* different records
OwnRecord(c, i) == (c - 1) * ConcRows + i

Owner(rec) == ((rec - 1) \div ConcRows) + 1

\* two processes call save_to_snowflake against the same table, each with
\* 1..ConcRows records of its own, after an earlier batch; their steps
\* interleave freely
InitConc ==
  /\ FetchIdle
  /\ MainIdle
  /\ TwinIdle
  /\ INSERT_CHUNK \in 1..ConcRows
  /\ autocommit \in BOOLEAN
  /\ creds = TRUE
  /\ table_exists = TRUE
  /\ table = PriorTable
  /\ table0 = table
  /\ \E K1 \in 1..ConcRows, K2 \in 1..ConcRows :
       ld = [c \in Runs |->
               [NotCalled EXCEPT !.pc = "call",
                  !.input = [i \in 1..(IF c = 1 THEN K1 ELSE K2) |-> OwnRecord(c, i)]]]

SpecConc == InitConc /\ [][NextLoad]_vars

\* ------------------------------------------------ two loads in sequence
\* a first call with 1..ConcRows records; the table may not exist yet
InitReload ==
  /\ FetchIdle
  /\ MainIdle
  /\ TwinIdle
  /\ INSERT_CHUNK \in 1..ConcRows
  /\ autocommit \in BOOLEAN
  /\ creds = TRUE
  /\ table_exists \in BOOLEAN
  /\ table = (IF table_exists THEN PriorTable ELSE <<>>)
  /\ table0 = table
  /\ \E K \in 1..ConcRows :
       ld = [c \in Runs |->
               IF c = 1 THEN [NotCalled EXCEPT !.pc = "call", !.input = [i \in 1..K |-> i]]
               ELSE NotCalled]

\* call c is over
Left(c) == ld[c].pc \in {"returned", "raised"}

\* the first call has returned or raised: save_to_snowflake is called again
\* with the same records
CallAgain ==
  /\ Left(1)
  /\ ld[2].pc = "idle"
  /\ ld' = [ld EXCEPT ![2] = [NotCalled EXCEPT !.pc = "call", !.input = ld[1].input]]
  /\ UNCHANGED <<INSERT_CHUNK, autocommit, creds, table, table_exists, table0>>
  /\ UNCHANGED <<fetchVars, mainVars>>

NextReload ==
  \/ NextLoad
  \/ CallAgain /\ UNCHANGED twin

SpecReload == InitReload /\ [][NextReload]_vars

\* ------------------------------------------------ main, lambda_handler
\* line 33: SINK = os.getenv("SINK", "snowflake").lower(), over the settings
\* the runs are given ("" stands for an unset variable)
SinkSettings == {"", "file", "FILE", "snowflake", "other"}

lower(v) == CASE v = "FILE" -> "file" [] OTHER -> v

SinkOf(v) == IF v = "" THEN "snowflake" ELSE lower(v)

\* line 264: SINK == "file"
UseFileSink_UnlessSnowflake == SINK # "snowflake"

UseFileSink == SINK = "file"

\* lines 269-271: lambda_handler returns its fixed response after main
\* returned; an exception of main passes through it
HandlerOutcome_CatchAll(m) == "returned"

HandlerOutcome(m) == IF m = "returned" THEN "returned" ELSE "raised"

\* lines 259-267: get_api_data has returned; nothing to store, or the call
\* of the sink SINK selects
MainSink ==
  /\ mpc = "fetch"
  /\ ppc = "done"
  /\ IF NoStudies(studies)
       THEN /\ mpc' = "returned"
            /\ UNCHANGED <<calls, ld>>
     ELSE IF UseFileSink
       THEN /\ mpc' = "file"
            /\ calls' = Append(calls, <<"file", studies>>)
            /\ UNCHANGED ld
     ELSE /\ mpc' = "save"
          /\ calls' = Append(calls, <<"snowflake", studies>>)
          /\ ld' = [ld EXCEPT ![1] = [NotCalled EXCEPT !.pc = "call", !.input = studies]]
  /\ UNCHANGED <<INSERT_CHUNK, autocommit, creds, table, table_exists, table0>>
  /\ UNCHANGED <<SINK, hpc, status, file>>
  /\ UNCHANGED fetchVars

\* lines 242-249: save_to_file writes one JSON document per record over any
\* earlier artifacts/raw_ctgov_studies.ndjson
FileOk ==
  /\ mpc = "file"
  /\ file' = studies
  /\ mpc' = "returned"
  /\ UNCHANGED <<SINK, hpc, status, calls>>
  /\ UNCHANGED <<fetchVars, loadVars>>

\* lines 243-246: mkdir or open raises; the exception leaves main
FileFail ==
  /\ mpc = "file"
  /\ mpc' = "raised"
  /\ UNCHANGED <<SINK, hpc, status, file, calls>>
  /\ UNCHANGED <<fetchVars, loadVars>>

\* line 267: save_to_snowflake has returned or raised; so does main
SaveDone ==
  /\ mpc = "save"
  /\ ld[1].pc \in {"returned", "raised"}
  /\ mpc' = ld[1].pc
  /\ UNCHANGED <<SINK, hpc, status, file, calls>>
  /\ UNCHANGED <<fetchVars, loadVars>>

\* lines 270-271: main is over; return {"statusCode": 200, "body": "OK"},
\* or let main's exception through
Handler ==
  /\ hpc = "main"
  /\ mpc \in {"returned", "raised"}
  /\ hpc' = HandlerOutcome(mpc)
  /\ status' = IF HandlerOutcome(mpc) = "returned" THEN 200 ELSE status
  /\ UNCHANGED <<SINK, mpc, file, calls>>
  /\ UNCHANGED <<fetchVars, loadVars>>

\* lambda_handler(event, context) has called main(): the configuration, the
\* source and the warehouse as the run finds them
InitMain ==
  /\ MAX_PAGES \in 0..MainPagesCfg
  /\ MAX_RECORDS \in 0..MainRecordsCfg
  /\ PAGE_SIZE \in 1..MaxPageSize
  /\ totalAvail \in 0..MainTotal
  /\ loopFrom = 0 /\ loopTo = 0
  /\ studies = <<>> /\ page_token = NoToken /\ seen_tokens = {}
  /\ pages = 0 /\ expected_pages = 0 /\ payload = None
  /\ ppc = "loop" /\ attempt = 0
  /\ requests = <<>> /\ outcomes = <<>> /\ waits = <<>> /\ stop = "running"
  /\ INSERT_CHUNK \in 1..MaxChunk
  /\ autocommit \in BOOLEAN
  /\ creds \in BOOLEAN
  /\ table_exists \in BOOLEAN
  /\ table = (IF table_exists THEN PriorTable ELSE <<>>)
  /\ table0 = table
  /\ ld = [c \in Runs |-> NotCalled]
  /\ \E v \in SinkSettings : SINK = SinkOf(v)
  /\ mpc = "fetch"
  /\ hpc = "main"
  /\ status = 0
  /\ file = <<>>
  /\ calls = <<>>
  /\ TwinIdle

NextMain ==
  \/ NextFetch
  \/ MainSink /\ UNCHANGED twin
  \/ FileOk /\ UNCHANGED twin
  \/ FileFail /\ UNCHANGED twin
  \/ SaveStep(1)
  \/ SaveDone /\ UNCHANGED twin
  \/ Handler /\ UNCHANGED twin

SpecMain == InitMain /\ [][NextMain]_vars

\* =================================================================
\* Properties of the fetcher and the paginator (checked under SpecFetch)
\* =================================================================
STOPPED == ppc = "done"

\* the result of a sequence of page requests: the requested pages' records,
\* concatenated in request order
RECURSIVE PagesOf(_)
PagesOf(reqs) ==
  IF reqs = <<>> THEN <<>>
  ELSE PagesOf(SubSeq(reqs, 1, Len(reqs) - 1)) \o PageRecords(PageOf(reqs[Len(reqs)]))

Failed(o) == o \in {"transport_error", "http_error"}

\* C1 as stated: for every max-record value N > 0 the returned sequence has
\* length exactly min(total available, N).
C1_LengthIsMinTotalN ==
  (STOPPED /\ MAX_RECORDS > 0) => Len(studies) = Min(totalAvail, MAX_RECORDS)

\* C1 amended: for N > 0 the returned sequence never has more than N records,
\* and its length is exactly min(total available, N) when the source hands
\* out no token twice and the run is not stopped first by a fetch failure or
\* by the max-page limit.
C1_LengthBoundedByN ==
  (STOPPED /\ MAX_RECORDS > 0) =>
    /\ Len(studies) <= MAX_RECORDS
    /\ (WellBehaved /\ stop \notin {"fetch_failure", "max_pages"})
         => Len(studies) = Min(totalAvail, MAX_RECORDS)

\* a run that fetched more than N records and cut the result back to N
C1_Witness ==
  /\ STOPPED /\ stop = "max_records" /\ WellBehaved
  /\ pages = 2 /\ Len(PagesOf(requests)) > MAX_RECORDS
  /\ Len(studies) = MAX_RECORDS

\* C2: no continuation token is used twice in a run: the page requests carry
\* pairwise different tokens, every token put into seen_tokens was not in it
\* before (the set grows by one per token requested), and a response whose
\* token is already in seen_tokens stops the loop with no further request.
C2_NoTokenReuse ==
  LET n == Len(requests)
      asked == {requests[i] : i \in 2..n}
      nextUp == IF ppc = "loop" /\ n > 0 THEN {page_token} ELSE {}
  IN
  /\ \A i, j \in 1..n : i # j => requests[i] # requests[j]
  /\ n > 0 => requests[1] = NoToken
  /\ NoToken \notin seen_tokens
  /\ seen_tokens = asked \cup nextUp
  /\ (ppc = "loop" /\ n > 0) => page_token \notin asked
  /\ Cardinality(seen_tokens) = (IF n = 0 THEN 0 ELSE n - 1) + Cardinality(nextUp)
  /\ stop = "repeated_token" =>
       /\ STOPPED
       /\ pages = n
       /\ PageNext(PageOf(requests[n])) \in seen_tokens

\* a run that met a token it had already seen, after using two tokens
C2_Witness ==
  /\ stop = "repeated_token"
  /\ Cardinality(seen_tokens) = 2
  /\ Len(requests) = 3

\* C7: one _get call issues at most 3 attempts, returns on the first
\* successful one, re-attempts after every failed one before the 3rd, and
\* returns None only after 3 failed attempts.
C7_AtMostThreeAttempts ==
  /\ Len(outcomes) <= MaxAttempts
  /\ \A i \in 1..(Len(outcomes) - 1) : Failed(outcomes[i])
  /\ ppc = "get" =>
       /\ attempt = Len(outcomes) + 1
       /\ attempt <= MaxAttempts
       /\ \A i \in 1..Len(outcomes) : Failed(outcomes[i])
  /\ ppc = "got" =>
       /\ Len(outcomes) >= 1
       /\ payload.ok <=> outcomes[Len(outcomes)] = "ok"
       /\ ~payload.ok => Len(outcomes) = MaxAttempts

\* a call that succeeds on its 3rd attempt, after one failure of each kind
C7_Witness ==
  /\ ppc = "got" /\ payload.ok
  /\ outcomes = <<"transport_error", "http_error", "ok">>

\* C8 as stated: waits happen only between failed attempt k and attempt k+1
\* and last k: a call that fails 3 times has waited 1 then 2 and nothing
\* after the 3rd failure.
C8_BackoffOneTwo ==
  /\ ppc = "get" => waits = [k \in 1..(attempt - 1) |-> k]
  /\ (ppc = "got" /\ ~payload.ok) => waits = <<1, 2>>

\* C9: when _get exhausts its retries it returns None, and the paginator
\* stops and returns exactly the records of the pages fetched before, in
\* fetch order (nothing when the first page failed).
C9_PartialOnFailure ==
  /\ (ppc = "got" /\ Len(outcomes) = MaxAttempts /\ Failed(outcomes[MaxAttempts]))
       => payload = None
  /\ stop = "fetch_failure" =>
       /\ STOPPED
       /\ pages = Len(requests) - 1
       /\ studies = PagesOf(SubSeq(requests, 1, pages))
       /\ WellBehaved => studies = [i \in 1..Min(pages * PAGE_SIZE, totalAvail) |-> i]

\* the fetch of page 3 failed after two pages were gathered
C9_Witness ==
  /\ STOPPED /\ stop = "fetch_failure"
  /\ pages = 2 /\ Len(studies) = 2 * PAGE_SIZE /\ PAGE_SIZE = 2

\* C10: with max pages M > 0 the paginator never fetches more than M pages:
\* after the M-th successful page it is STOPPED, whatever token that page
\* carries, and with no record limit it returns exactly those M pages.
C10_AtMostMaxPages ==
  MAX_PAGES > 0 =>
    /\ pages <= MAX_PAGES
    /\ Len(requests) <= MAX_PAGES
    /\ pages = MAX_PAGES => STOPPED
    /\ stop = "max_pages" =>
         /\ pages = MAX_PAGES
         /\ studies = PagesOf(requests)
         /\ (WellBehaved /\ MAX_PAGES = 1) => Len(studies) = Min(PAGE_SIZE, totalAvail)

\* max pages = 1 with 3 pages available: stopped after page 1, whose fresh
\* continuation token is left unused
C10_Witness ==
  /\ STOPPED /\ stop = "max_pages" /\ MAX_PAGES = 1 /\ WellBehaved
  /\ NumPages = 3 /\ PageNext(1) = 2 /\ 2 \notin seen_tokens
  /\ Len(studies) = PAGE_SIZE


\* =================================================================
\* Properties of the loader (checked under SpecLoad)
\* =================================================================
Released(h) == h \in {"none", "closed", "close_failed"}

\* C3 as stated: when the j-th commit fails, exactly the rows of chunks
\* 1..j-1 are durably visible in the table afterwards.
C3_FailedCommitKeepsEarlierChunks ==
  \A c \in Runs :
    (ld[c].pc = "raised" /\ ld[c].cause = "commit") =>
      table = table0 \o SubSeq(ld[c].rows, 1, (ld[c].k - 1) * INSERT_CHUNK)

\* C3 in a session that does not auto-commit: the statement holds there
C3_HoldsWithoutAutocommit ==
  \A c \in Runs :
    (ld[c].pc = "raised" /\ ld[c].cause = "commit" /\ ~autocommit) =>
      table = table0 \o SubSeq(ld[c].rows, 1, (ld[c].k - 1) * INSERT_CHUNK)

\* C4: a successful load of K > 0 records with chunk size C performs exactly
\* ceil(K/C) commits, each after at most C single-row inserts (all chunks but
\* the last after exactly C), and ends with all K rows committed.
C4_OneCommitPerChunk ==
  \A c \in Runs :
    /\ ld[c].r <= INSERT_CHUNK
    /\ (ld[c].pc = "returned" /\ ld[c].input # <<>>) =>
         LET K == Len(ld[c].input)
             n == Len(ld[c].commits)
         IN
         /\ n = ceil(K, INSERT_CHUNK)
         /\ \A i \in 1..n :
              /\ ld[c].commits[i] \in 1..INSERT_CHUNK
              /\ i < n => ld[c].commits[i] = INSERT_CHUNK
         /\ ld[c].inserted = K
         /\ ld[c].pending = <<>>
         /\ table = table0 \o ld[c].rows

\* 4 records in chunks of 3: two commits, after 3 inserts and after 1
C4_Witness ==
  /\ ld[1].pc = "returned" /\ Len(ld[1].input) = 4 /\ INSERT_CHUNK = 3
  /\ ld[1].commits = <<3, 1>>
  /\ ~autocommit

\* C5 as stated: on every exit path every connection and cursor that was
\* acquired has had close called on it when the call returns or raises.
C5_AllReleased ==
  \A c \in Runs : Left(c) => (Released(ld[c].conn) /\ Released(ld[c].cur))

\* C6: a failure after the connection was obtained is followed by a rollback
\* attempt and is then raised to the caller unchanged: it is never swallowed
\* and never replaced by an error of the rollback or of the release.
C6_FailurePropagates ==
  \A c \in Runs :
    /\ ld[c].pc = "returned" => ld[c].cause = "none"
    /\ ld[c].pc = "raised" =>
         /\ ld[c].cause # "none"
         /\ ld[c].raised = ld[c].cause
    /\ (ld[c].cause # "none" /\ ld[c].pc # "except") =>
         /\ ld[c].exc = ld[c].cause
         /\ ld[c].conn # "none" => ld[c].rollback # "not_called"

\* a failed commit, then a failed rollback and a failed cursor close: the
\* commit's failure is what reaches the caller
C6_Witness ==
  /\ ld[1].pc = "raised" /\ ld[1].raised = "commit"
  /\ ld[1].rollback = "failed" /\ ld[1].cur = "close_failed"

\* =================================================================
\* Further properties of the paginator (checked under SpecFetch)
\* =================================================================
\* C11: with max pages = 0 and max records = 0, no fetch failure and no
\* repeated token, the paginator fetches every page exactly once, in order,
\* stops on the first response without a continuation token and returns the
\* concatenation of all pages.
C11_UnlimitedFetchesAll ==
  (STOPPED /\ MAX_PAGES = 0 /\ MAX_RECORDS = 0
     /\ stop \notin {"fetch_failure", "repeated_token"}) =>
    /\ stop = "no_token"
    /\ PageNext(PageOf(requests[Len(requests)])) = NoToken
    /\ \A i \in 1..(Len(requests) - 1) : PageNext(PageOf(requests[i])) # NoToken
    /\ requests = [i \in 1..NumPages |-> IF i = 1 THEN NoToken ELSE i]
    /\ pages = NumPages
    /\ studies = PagesOf(requests)
    /\ studies = [i \in 1..totalAvail |-> i]

\* 5 records in pages of 2, 2 and 1: three page fetches, 5 records returned
C11_Witness ==
  /\ STOPPED /\ stop = "no_token" /\ MAX_PAGES = 0 /\ MAX_RECORDS = 0
  /\ totalAvail = 5 /\ PAGE_SIZE = 2
  /\ pages = 3 /\ Len(requests) = 3 /\ Len(studies) = 5
  /\ page_token = 3

\* =================================================================
\* Properties of the entrypoints (checked under SpecMain) and further
\* properties of the loader
\* =================================================================
\* C12 as stated: a missing warehouse credential makes the run fail before
\* any network activity: no HTTP request to the source API has been issued
\* when the missing-credential error is raised.
C12_ConfigErrorBeforeRequests ==
  ld[1].cause = "missing_env" => requests = <<>>

\* C13: save_to_snowflake with an empty record set is a no-op: it returns
\* without raising, opens no connection and no cursor, ensures no table,
\* inserts and commits nothing, and leaves the table as it was.
C13_EmptyIsNoOp ==
  \A c \in Runs :
    (ld[c].pc # "idle" /\ ld[c].input = <<>>) =>
      /\ ld[c].pc \in {"call", "returned"}
      /\ ld[c].conn = "none" /\ ld[c].cur = "none"
      /\ ld[c].cause = "none" /\ ld[c].raised = "none"
      /\ ld[c].rows = <<>> /\ ld[c].pending = <<>> /\ ld[c].commits = <<>>
      /\ ld[c].batch_id = 0
      /\ table = table0
      /\ table_exists = (table0 # <<>>)

\* the call with no records has returned, the table not having been created
C13_Witness ==
  /\ ld[1].pc = "returned" /\ ld[1].input = <<>>
  /\ ~table_exists /\ creds

\* C14: all rows written by one call carry one and the same batch id,
\* generated once, before the first insert, and used for every chunk.
C14_OneBatchIdPerCall ==
  \A c \in Runs :
    /\ ld[c].pc \in {"insert", "commit"} => ld[c].second \in 1..MaxSecond
    /\ ld[c].rows # <<>> => ld[c].batch_id \in {BatchId(t) : t \in Instants}
    /\ \A i \in 1..Len(ld[c].rows) : ld[c].rows[i][2] = ld[c].batch_id
    /\ \A i \in 1..Len(ld[c].pending) : ld[c].pending[i][2] = ld[c].batch_id
    /\ c = 1 => \A i \in (Len(table0) + 1)..Len(table) : table[i][2] = ld[c].batch_id

\* 4 rows committed in 4 chunks after an earlier batch's row, all 4 with the
\* call's batch id
C14_Witness ==
  /\ ld[1].pc = "returned" /\ Len(ld[1].commits) = 4
  /\ table0 # <<>> /\ Len(table) = 5
  /\ table[1][2] # ld[1].batch_id
  /\ \A i \in 2..5 : table[i][2] = ld[1].batch_id

\* C15: two runs load concurrently.  Batch ids generated in different
\* seconds differ, every committed row carries the id of the run that
\* inserted it, and then no batch id is shared by rows of both runs.
C15_ConcurrentRunsKeepOwnIds ==
  LET generated == ld[1].second # 0 /\ ld[2].second # 0
      apart == generated /\ ld[1].second # ld[2].second
      New == (Len(table0) + 1)..Len(table)
  IN  /\ apart => ld[1].batch_id # ld[2].batch_id
      /\ \A i \in New : table[i][2] = ld[Owner(table[i][1])].batch_id
      /\ apart => \A i, j \in New :
                    table[i][2] = table[j][2] => Owner(table[i][1]) = Owner(table[j][1])

\* both runs returned, ids from different seconds, their rows interleaved
\* in the table: run 1, run 2, run 1
C15_Witness ==
  /\ ld[1].pc = "returned" /\ ld[2].pc = "returned"
  /\ ld[1].second # 0 /\ ld[2].second # 0 /\ ld[1].second # ld[2].second
  /\ Len(table) = Len(table0) + 3
  /\ Owner(table[Len(table0) + 1][1]) = 1
  /\ Owner(table[Len(table0) + 2][1]) = 2
  /\ Owner(table[Len(table0) + 3][1]) = 1

\* C16: the table is append-only under any sequence of loads: no step of a
\* load, successful or failed, removes or changes a row the table holds,
\* and a table that exists is never dropped.
C16_AppendOnly ==
  [][/\ Len(table') >= Len(table)
     /\ SubSeq(table', 1, Len(table)) = table
     /\ table_exists => table_exists']_vars

\* a successful load followed by a failed one that rolled back: the earlier
\* batch's row and the first load's rows are all still there
C16_Witness ==
  /\ ld[1].pc = "returned" /\ ld[2].pc = "raised" /\ ld[2].rollback = "ok"
  /\ table0 = PriorTable
  /\ Len(table) > Len(table0) + Len(ld[1].rows)
  /\ SubSeq(table, 1, Len(table0) + Len(ld[1].rows)) = table0 \o ld[1].rows

\* the records a table holds, row by row
Records(tbl) == [i \in 1..Len(tbl) |-> tbl[i][1]]

\* C17 as stated: a second successful call with the same records leaves the
\* table holding the records it held after the first.
C17_SecondLoadChangesNothing ==
  (ld[1].pc = "returned" /\ ld[2].pc = "returned")
    => Records(table) = Records(table0 \o ld[1].rows)

\* C17 amended: the first successful call leaves its rows after the earlier
\* ones, and a second successful call with the same records appends them
\* again, one new row per record, under its own batch id.
C17_SecondLoadAppendsAgain ==
  /\ (ld[1].pc = "returned" /\ ld[2].pc = "idle") => table = table0 \o ld[1].rows
  /\ (ld[1].pc = "returned" /\ ld[2].pc = "returned")
       => /\ table = table0 \o Rows(ld[1].input, ld[1].batch_id)
                            \o Rows(ld[1].input, ld[2].batch_id)
          /\ Records(table) = Records(table0) \o ld[1].input \o ld[1].input

\* both calls returned, the second in a later second: 2 records, 4 new rows
C17_Witness ==
  /\ ld[1].pc = "returned" /\ ld[2].pc = "returned"
  /\ Len(ld[1].input) = 2 /\ ld[2].input = ld[1].input
  /\ ld[2].batch_id > ld[1].batch_id
  /\ Len(table) = Len(table0) + 4

\* =================================================================
\* Properties of main and lambda_handler (checked under SpecMain)
\* =================================================================
\* main has passed its choice of a sink
PastSink == mpc \in {"file", "save", "returned", "raised"}

\* C18: in a run of main that gathered at least one record exactly one sink
\* is called, once, with all the records gathered: the file sink when SINK
\* is "file", the warehouse sink otherwise; the other sink is never touched.
C18_OneSinkOnce ==
  /\ mpc = "fetch" => (calls = <<>> /\ file = <<>> /\ ld[1] = NotCalled)
  /\ (PastSink /\ studies # <<>>) =>
       /\ calls = << <<(IF SINK = "file" THEN "file" ELSE "snowflake"), studies>> >>
       /\ SINK = "file" => (ld[1] = NotCalled /\ table = table0 /\ ~(mpc = "save"))
       /\ SINK # "file" => (file = <<>> /\ ld[1].input = studies /\ ~(mpc = "file"))
       /\ (SINK = "file" /\ mpc = "returned") => file = studies

\* SINK is neither "file" nor "snowflake": 2 records went to the warehouse
\* in one call, and no file was written
C18_Witness ==
  /\ SINK = "other" /\ mpc = "returned" /\ Len(studies) = 2
  /\ calls = << <<"snowflake", studies>> >>
  /\ Len(table) = Len(table0) + 2 /\ file = <<>>

\* C19: lambda_handler returns status 200 whenever main returns, also after
\* a fetch that stopped early; when the load raises, the exception leaves
\* lambda_handler and no status is returned.
C19_StatusOnlyWhenMainReturns ==
  /\ status \in {0, 200}
  /\ hpc = "returned" => (status = 200 /\ mpc = "returned")
  /\ (mpc = "returned" /\ hpc # "main") => (hpc = "returned" /\ status = 200)
  /\ mpc = "raised" => (hpc # "returned" /\ status = 0)
  /\ (mpc = "raised" /\ hpc # "main") => hpc = "raised"

\* status 200 after a fetch that failed on its second page: the one record
\* of the first page was stored
C19_Witness ==
  /\ hpc = "returned" /\ status = 200
  /\ stop = "fetch_failure" /\ Len(studies) = 1 /\ totalAvail = 2
  /\ Len(table) = Len(table0) + 1

\* =================================================================
\* The total-count hint (checked under SpecHint)
\* =================================================================
\* the two runs have issued the same requests, are at the same point, have
\* stopped for the same reason if they have, and hold the same records
SameRun ==
  /\ twin.requests = requests
  /\ twin.ppc = ppc
  /\ twin.stop = stop
  /\ twin.studies = studies
  /\ twin.page_token = page_token
  /\ twin.seen_tokens = seen_tokens
  /\ twin.pages = pages

\* C20 as stated: two runs fed the same pages and continuation tokens, and
\* differing only in the totalCount of their pages, issue the same requests,
\* stop for the same reason and return the same records.
C20_HintNeverAltersControlFlow == SameRun

\* the hints differ and the two runs are the same, as long as no hint makes
\* line 99 overflow
C20_SameRunUnlessOverflow == twin.stop # "raised" => SameRun

\* the loop body on a record of locals is the loop body of the first run
C20_PageStepIsProcessPage ==
  [][(ppc = "got" /\ ppc' # "got") => Cur' = PageStep(Cur)]_vars

\* C21: with finitely many distinct continuation tokens the paginator always
\* reaches STOPPED, also without page and record limits and whatever the
\* order of successes, failures and tokens: every _get call is within its 3
\* attempts, every pass of the loop body stops or moves to a token it adds to
\* the seen set and had not seen before, and once STOPPED the run stays
\* STOPPED and issues no further request.
C21_ReachesStopped ==
  /\ <>STOPPED
  /\ [](attempt <= MaxAttempts /\ Len(outcomes) <= MaxAttempts)
  /\ [][(ppc = "got" /\ ppc' # "got") =>
          \/ STOPPED'
          \/ /\ page_token' \notin seen_tokens
             /\ seen_tokens' = seen_tokens \cup {page_token'}
             /\ Cardinality(seen_tokens') = Cardinality(seen_tokens) + 1]_vars
  /\ [][STOPPED => (STOPPED' /\ requests' = requests)]_vars

\* no page limit, no record limit, a source whose third page points back to
\* its second: stopped on the repeated token after three requests
C21_Witness ==
  /\ STOPPED /\ stop = "repeated_token"
  /\ MAX_PAGES = 0 /\ MAX_RECORDS = 0
  /\ loopFrom = 3 /\ loopTo = 2
  /\ requests = <<NoToken, 2, 3>>
  /\ seen_tokens = {2, 3}

====
